---- MODULE Spec2Model ----
(***************************************************************************)
(* Descriptor-handle layer of package netpoll (troian/easygo).             *)
(*                                                                         *)
(* The model holds the process descriptor table, the Desc values the       *)
(* caller has obtained, and the result of the last call.  A descriptor     *)
(* number refers to an open file description; the O_NONBLOCK status flag   *)
(* belongs to the description, so descriptors made by duplication share    *)
(* it with the descriptor they were duplicated from.                       *)
(***************************************************************************)
EXTENDS Integers, Sequences, FiniteSets, TLC

VARIABLES
    fdTable,    \* descriptor number -> open file description id (0: closed)
    nonblock,   \* open file description id -> O_NONBLOCK is set
    handles,    \* the Desc values returned so far (closed ones included)
    made,       \* history: the constructor that made each Desc
    fdSeen,     \* history (SpecLazy): the values Fd() has returned for each Desc
    ret,        \* the result of the last call
    trace,      \* the resource operations the last call performed, in order
    pc,         \* racing Fd() calls: position of each goroutine
    tchk,       \* racing Fd() calls: what each goroutine read at the check
    tloc,       \* racing Fd() calls: what each goroutine resolved or returned
    seenIdx,    \* racing Fd() calls: newest write of h.desc each goroutine saw
    descWrites  \* racing Fd() calls: the writes of h.desc, oldest first

vars == <<fdTable, nonblock, handles, made, fdSeen, ret, trace,
          pc, tchk, tloc, seenIdx, descWrites>>

raceVars == <<pc, tchk, tloc, seenIdx, descWrites>>

-----------------------------------------------------------------------------
(* Bounds *)

MaxFd == 4          \* size of the descriptor table (RLIMIT_NOFILE)
MaxHandles == 2     \* Desc values constructed in one behaviour
NumThreads == 3     \* goroutines racing on Fd()

-----------------------------------------------------------------------------
(* Event interest flags (declared in the poller files of the package) *)

EventRead == 1
EventWrite == 2
EventOneShot == 4
EventEdgeTriggered == 8

Interests == {EventRead + EventEdgeTriggered}

-----------------------------------------------------------------------------
(* The environment: source objects and the descriptor table *)

Fds == 0 .. (MaxFd - 1)
Ofds == 1 .. 2

\* x.(filer): net.Conn and net.Listener values of package net have File();
\* "other" is a value that has not.
Sources == {"conn", "listener", "other"}

IsFiler_all(x) == TRUE

IsFiler(x) == x \in {"conn", "listener"}

\* the descriptor number the source object itself owns
srcFd(x) == CASE x = "conn" -> 0
              [] x = "listener" -> 1
              [] OTHER -> -1

IsOpen(fds, fd) == fd \in DOMAIN fds /\ fds[fd] # 0

OpenFds(fds) == {fd \in DOMAIN fds : fds[fd] # 0}

FreeFds(fds) == {fd \in DOMAIN fds : fds[fd] = 0}

\* the kernel hands out the lowest unused descriptor number
LowestFree(fds) == CHOOSE fd \in FreeFds(fds) : \A g \in FreeFds(fds) : fd <= g

\* a description nobody refers to any more has no flags
Live(fds, nb) == [o \in Ofds |-> nb[o] /\ \E fd \in DOMAIN fds : fds[fd] = o]

\* Errors are sequences of strings: <<>> is nil, a wrapped error is prefixed
\* by the name of the failing call.
NoErr == <<>>

\* what the environment makes fail during one call
Faults == {"none", "File", "SetNonblock"}

ErrNotFiler == <<"ErrNotFiler">>

\* the nil *Desc
NilDesc == [nil |-> TRUE]

Op(name, fd) == [op |-> name, fd |-> fd]

-----------------------------------------------------------------------------
(* Calls into package net, os and syscall.  An *os.File is represented by   *)
(* the descriptor number it holds; -1 is a nil or an already closed file.  *)

\* f.File() returning the source's own descriptor instead of a copy
connFile_nodup(st, x, fail) ==
    LET sfd == srcFd(x) IN
    IF fail = "File"
    THEN [st |-> st, file |-> -1, err |-> <<"EMFILE">>]
    ELSE IF ~IsOpen(st.fds, sfd)
    THEN [st |-> st, file |-> -1, err |-> <<"EBADF">>]
    ELSE [st |-> [st EXCEPT !.nb[st.fds[sfd]] = FALSE], file |-> sfd, err |-> NoErr]

\* f.File(): "returns a copy of object's file descriptor"; the copy is a
\* dup of the source's descriptor and File() leaves the (shared) description
\* in blocking mode.  It fails on a closed source, when the table is full,
\* and when the process is out of descriptors for a reason the model does
\* not show (fail = "File").
connFile(st, x, fail) ==
    LET sfd == srcFd(x) IN
    IF fail = "File"
    THEN [st |-> st, file |-> -1, err |-> <<"EMFILE">>]
    ELSE IF ~IsOpen(st.fds, sfd)
    THEN [st |-> st, file |-> -1, err |-> <<"EBADF">>]
    ELSE IF FreeFds(st.fds) = {}
    THEN [st |-> st, file |-> -1, err |-> <<"EMFILE">>]
    ELSE LET nfd == LowestFree(st.fds)
             o == st.fds[sfd]
         IN [st |-> [fds |-> [st.fds EXCEPT ![nfd] = o],
                     nb |-> [st.nb EXCEPT ![o] = FALSE]],
             file |-> nfd, err |-> NoErr]

\* syscall.SetNonblock(fd, false): the flag argument inverted
SetNonblock_clear(st, fd, fail) ==
    IF ~IsOpen(st.fds, fd) THEN [st |-> st, err |-> <<"EBADF">>]
    ELSE IF fail = "SetNonblock" THEN [st |-> st, err |-> <<"EINVAL">>]
    ELSE [st |-> [st EXCEPT !.nb[st.fds[fd]] = FALSE], err |-> NoErr]

\* syscall.SetNonblock(fd, true); fail = "SetNonblock": the call is made to
\* fail on a valid descriptor
SetNonblock(st, fd, fail) ==
    IF ~IsOpen(st.fds, fd) THEN [st |-> st, err |-> <<"EBADF">>]
    ELSE IF fail = "SetNonblock" THEN [st |-> st, err |-> <<"EINVAL">>]
    ELSE [st |-> [st EXCEPT !.nb[st.fds[fd]] = TRUE], err |-> NoErr]

\* os.NewFile(fd, ""): nil for an invalid descriptor number
osNewFile(fd) == IF fd < 0 THEN -1 ELSE fd

\* (*os.File).Fd()
fileFd(file) == file

\* (*os.File).Close(): an error and no system call on a nil or closed file,
\* close(2) on the descriptor otherwise
fileClose(st, file) ==
    IF file = -1 THEN [st |-> st, err |-> <<"ErrClosed">>]
    ELSE IF ~IsOpen(st.fds, file) THEN [st |-> st, err |-> <<"EBADF">>]
    ELSE LET fds == [st.fds EXCEPT ![file] = 0]
         IN [st |-> [fds |-> fds, nb |-> Live(fds, st.nb)], err |-> NoErr]

-----------------------------------------------------------------------------
(* Desc and its methods *)

\* Fd() that asks the file on every call
DescFd_nocache(h) == [h |-> h, val |-> fileFd(h.file)]

\* func (h *Desc) Fd() int
DescFd(h) ==
    LET h2 == IF h.desc = -1 THEN [h EXCEPT !.desc = fileFd(h.file)] ELSE h
    IN [h |-> h2, val |-> h2.desc]

\* Close() that returns nil on a Desc it has already closed
DescClose_guarded(st, h) ==
    IF h.file = -1
    THEN [st |-> st, h |-> h, err |-> NoErr, trace |-> <<>>]
    ELSE LET c == fileClose(st, h.file)
         IN [st |-> c.st, h |-> [h EXCEPT !.file = -1], err |-> c.err,
             trace |-> <<Op("file.Close", h.file)>>]

\* Close() that forgets the cached descriptor number
DescClose_invalidating(st, h) ==
    LET c == fileClose(st, h.file)
    IN [st |-> c.st, h |-> [h EXCEPT !.file = -1, !.desc = -1], err |-> c.err,
        trace |-> <<Op("file.Close", h.file)>>]

\* func (h *Desc) Close() error
DescClose(st, h) ==
    LET c == fileClose(st, h.file)
    IN [st |-> c.st, h |-> [h EXCEPT !.file = -1], err |-> c.err,
        trace |-> <<Op("file.Close", h.file)>>]

-----------------------------------------------------------------------------
(* Constructors *)

\* newDesc that keeps only the readiness kinds of ev, not its mode flags
newDesc_kindsOnly(st, file, ev, fail) ==
    LET desc == [file |-> file, event |-> ev % EventOneShot,
                 desc |-> fileFd(file)]
        f == DescFd(desc)
        r == SetNonblock(st, f.val, fail)
    IN IF r.err # NoErr
       THEN [st |-> r.st, desc |-> NilDesc, err |-> <<"setnonblock">> \o r.err,
             trace |-> <<Op("setnonblock", f.val)>>]
       ELSE [st |-> r.st, desc |-> f.h, err |-> NoErr,
             trace |-> <<Op("setnonblock", f.val)>>]

\* func newDesc(file *os.File, ev Event) (*Desc, error)
newDesc(st, file, ev, fail) ==
    LET desc == [file |-> file, event |-> ev, desc |-> fileFd(file)]
        f == DescFd(desc)
        r == SetNonblock(st, f.val, fail)
    IN IF r.err # NoErr
       THEN [st |-> r.st, desc |-> NilDesc, err |-> <<"setnonblock">> \o r.err,
             trace |-> <<Op("setnonblock", f.val)>>]
       ELSE [st |-> r.st, desc |-> f.h, err |-> NoErr,
             trace |-> <<Op("setnonblock", f.val)>>]

\* NewDesc that wraps a duplicate of fd and leaves fd to the caller
NewDescFn_dup(st, fd, ev, fail) ==
    IF ~IsOpen(st.fds, fd) \/ FreeFds(st.fds) = {}
    THEN [st |-> st, desc |-> NilDesc, err |-> <<"EBADF">>, trace |-> <<>>]
    ELSE LET n == LowestFree(st.fds)
             fds == [st.fds EXCEPT ![n] = st.fds[fd]]
             d == newDesc([st EXCEPT !.fds = fds], osNewFile(n), ev, fail)
         IN IF d.err # NoErr
            THEN LET c == fileClose(d.st, n)
                 IN [st |-> c.st, desc |-> NilDesc, err |-> d.err,
                     trace |-> d.trace \o <<Op("file.Close", n)>>]
            ELSE d

\* NewDesc that leaves fd open when it fails
NewDescFn_noClose(st, fd, ev, fail) ==
    newDesc(st, osNewFile(fd), ev, fail)

\* func NewDesc(fd uintptr, ev Event) (*Desc, error)
NewDescFn(st, fd, ev, fail) ==
    LET file == osNewFile(fd)
        d == newDesc(st, file, ev, fail)
    IN IF d.err # NoErr
       THEN LET c == fileClose(d.st, file)
            IN [st |-> c.st, desc |-> NilDesc, err |-> d.err,
                trace |-> d.trace \o <<Op("file.Close", file)>>]
       ELSE d

\* handle() without the rollback
handle_noRollback(st, x, ev, fail) ==
    IF ~IsFiler(x)
    THEN [st |-> st, desc |-> NilDesc, err |-> ErrNotFiler, trace |-> <<>>]
    ELSE LET f == connFile(st, x, fail) IN
         IF f.err # NoErr
         THEN [st |-> f.st, desc |-> NilDesc, err |-> f.err,
               trace |-> <<Op("File", srcFd(x))>>]
         ELSE LET d == newDesc(f.st, f.file, ev, fail)
              IN [d EXCEPT !.trace = <<Op("File", srcFd(x))>> \o d.trace]

\* handle() that hands the source's own descriptor to newDesc
handle_onSource(st, x, ev, fail) ==
    IF ~IsFiler(x)
    THEN [st |-> st, desc |-> NilDesc, err |-> ErrNotFiler, trace |-> <<>>]
    ELSE LET f == connFile(st, x, fail) IN
         IF f.err # NoErr
         THEN [st |-> f.st, desc |-> NilDesc, err |-> f.err,
               trace |-> <<Op("File", srcFd(x))>>]
         ELSE LET d == newDesc(f.st, srcFd(x), ev, fail) IN
              IF d.err # NoErr
              THEN LET c == fileClose(d.st, f.file)
                   IN [st |-> c.st, desc |-> NilDesc, err |-> d.err,
                       trace |-> <<Op("File", srcFd(x))>> \o d.trace
                                    \o <<Op("file.Close", f.file)>>]
              ELSE [d EXCEPT !.trace = <<Op("File", srcFd(x))>> \o d.trace]

\* handle() that wraps the error of File()
handle_wrapFileErr(st, x, ev, fail) ==
    IF ~IsFiler(x)
    THEN [st |-> st, desc |-> NilDesc, err |-> ErrNotFiler, trace |-> <<>>]
    ELSE LET f == connFile(st, x, fail) IN
         IF f.err # NoErr
         THEN [st |-> f.st, desc |-> NilDesc, err |-> <<"file">> \o f.err,
               trace |-> <<Op("File", srcFd(x))>>]
         ELSE LET d == newDesc(f.st, f.file, ev, fail) IN
              IF d.err # NoErr
              THEN LET c == fileClose(d.st, f.file)
                   IN [st |-> c.st, desc |-> NilDesc, err |-> d.err,
                       trace |-> <<Op("File", srcFd(x))>> \o d.trace
                                    \o <<Op("file.Close", f.file)>>]
              ELSE [d EXCEPT !.trace = <<Op("File", srcFd(x))>> \o d.trace]

\* func handle(x interface{}, event Event) (*Desc, error)
handle(st, x, ev, fail) ==
    IF ~IsFiler(x)
    THEN [st |-> st, desc |-> NilDesc, err |-> ErrNotFiler, trace |-> <<>>]
    ELSE LET f == connFile(st, x, fail) IN
         IF f.err # NoErr
         THEN [st |-> f.st, desc |-> NilDesc, err |-> f.err,
               trace |-> <<Op("File", srcFd(x))>>]
         ELSE LET d == newDesc(f.st, f.file, ev, fail) IN
              IF d.err # NoErr
              THEN LET c == fileClose(d.st, f.file)
                   IN [st |-> c.st, desc |-> NilDesc, err |-> d.err,
                       trace |-> <<Op("File", srcFd(x))>> \o d.trace
                                    \o <<Op("file.Close", f.file)>>]
              ELSE [d EXCEPT !.trace = <<Op("File", srcFd(x))>> \o d.trace]

\* func Handle(conn net.Conn, event Event) (*Desc, error)
HandleFn(st, conn, event, fail) ==
    LET r == handle(st, conn, event, fail)
    IN IF r.err # NoErr THEN [r EXCEPT !.desc = NilDesc] ELSE r

\* func HandleListener(ln net.Listener, event Event) (*Desc, error)
HandleListenerFn(st, ln, event, fail) == handle(st, ln, event, fail)

-----------------------------------------------------------------------------
(* State *)

Threads == 1 .. NumThreads

OS == [fds |-> fdTable, nb |-> nonblock]

Ret(op, h, err, val) == [op |-> op, h |-> h, err |-> err, val |-> val]

\* Descriptor 0 is the connection's socket, 1 the listener's; package net
\* keeps its sockets non-blocking.
InitOS ==
    /\ fdTable = [fd \in Fds |-> IF fd <= 1 THEN fd + 1 ELSE 0]
    /\ nonblock = [o \in Ofds |-> TRUE]

InitIdle ==
    /\ pc = [t \in Threads |-> "idle"]
    /\ tchk = [t \in Threads |-> -1]
    /\ tloc = [t \in Threads |-> -1]
    /\ seenIdx = [t \in Threads |-> 1]
    /\ descWrites = <<>>

Init ==
    /\ InitOS
    /\ handles = <<>>
    /\ made = <<>>
    /\ fdSeen = <<>>
    /\ ret = Ret("none", 0, NoErr, -1)
    /\ trace = <<>>
    /\ InitIdle

\* the caller receives the result r of constructor op
Construct(op, r) ==
    /\ Len(handles) < MaxHandles
    /\ fdTable' = r.st.fds
    /\ nonblock' = r.st.nb
    /\ trace' = r.trace
    /\ IF r.desc # NilDesc
       THEN /\ handles' = Append(handles, r.desc)
            /\ made' = Append(made, op)
            /\ fdSeen' = Append(fdSeen, {})
            /\ ret' = Ret(op, Len(handles) + 1, r.err, -1)
       ELSE /\ UNCHANGED <<handles, made, fdSeen>>
            /\ ret' = Ret(op, 0, r.err, -1)
    /\ UNCHANGED raceVars

NewDesc(fd, ev, fail) == Construct("NewDesc", NewDescFn(OS, fd, ev, fail))

Handle(x, ev, fail) == Construct("Handle", HandleFn(OS, x, ev, fail))

HandleListener(x, ev, fail) ==
    Construct("HandleListener", HandleListenerFn(OS, x, ev, fail))

Close(i) ==
    LET r == DescClose(OS, handles[i]) IN
    /\ fdTable' = r.st.fds
    /\ nonblock' = r.st.nb
    /\ handles' = [handles EXCEPT ![i] = r.h]
    /\ trace' = r.trace
    /\ ret' = Ret("Close", i, r.err, -1)
    /\ UNCHANGED <<made, fdSeen>>
    /\ UNCHANGED raceVars

\* Fd() on the i-th Desc; the history fdSeen is left to FdObserved
FdCalled(i) ==
    LET r == DescFd(handles[i]) IN
    /\ handles' = [handles EXCEPT ![i] = r.h]
    /\ trace' = <<>>
    /\ ret' = Ret("Fd", i, NoErr, r.val)
    /\ UNCHANGED <<fdTable, nonblock, made>>
    /\ UNCHANGED raceVars

Fd(i) == FdCalled(i) /\ UNCHANGED fdSeen

Next ==
    \/ \E fd \in -1 .. (MaxFd - 1), ev \in Interests, fail \in Faults :
          NewDesc(fd, ev, fail)
    \/ \E x \in {"conn", "other"}, ev \in Interests, fail \in Faults :
          Handle(x, ev, fail)
    \/ \E x \in {"listener", "other"}, ev \in Interests, fail \in Faults :
          HandleListener(x, ev, fail)
    \/ \E i \in DOMAIN handles : Close(i)
    \/ \E i \in DOMAIN handles : Fd(i)

Spec == Init /\ [][Next]_vars

-----------------------------------------------------------------------------
(* A Desc whose cached number is unset.  No constructor leaves desc at -1;  *)
(* Fd() provides for it, so SpecLazy starts from a Desc built over a copy   *)
(* of the connection's or the listener's descriptor with the cache either  *)
(* populated or unset, runs the same operations, and keeps in fdSeen what   *)
(* Fd() has returned.                                                      *)

LazyDescs ==
    LET st0 == [fds |-> [fd \in Fds |-> IF fd <= 1 THEN fd + 1 ELSE 0],
                nb |-> [o \in Ofds |-> TRUE]]
    IN { [r |-> r, cache |-> c] :
            r \in {handle(st0, x, ev, "none") : x \in {"conn", "listener"}, ev \in Interests},
            c \in {"set", "unset"} }

InitLazy ==
    \E d \in LazyDescs :
        /\ fdTable = d.r.st.fds
        /\ nonblock = d.r.st.nb
        /\ handles = << IF d.cache = "unset" THEN [d.r.desc EXCEPT !.desc = -1]
                        ELSE d.r.desc >>
        /\ made = <<d.cache>>
        /\ fdSeen = <<{}>>
        /\ ret = Ret("none", 0, NoErr, -1)
        /\ trace = <<>>
        /\ InitIdle

\* Fd() on the i-th Desc, the returned value added to the history
FdObserved(i) ==
    /\ FdCalled(i)
    /\ fdSeen' = [fdSeen EXCEPT ![i] = @ \cup {ret'.val}]

NextLazy ==
    \/ \E fd \in -1 .. (MaxFd - 1), ev \in Interests, fail \in Faults :
          NewDesc(fd, ev, fail)
    \/ \E x \in {"conn", "other"}, ev \in Interests, fail \in Faults :
          Handle(x, ev, fail)
    \/ \E x \in {"listener", "other"}, ev \in Interests, fail \in Faults :
          HandleListener(x, ev, fail)
    \/ \E i \in DOMAIN handles : Close(i)
    \/ \E i \in DOMAIN handles : FdObserved(i)

SpecLazy == InitLazy /\ [][NextLazy]_vars

-----------------------------------------------------------------------------
(* Fd() called from several goroutines on one Desc without synchronisation. *)
(* Each goroutine runs Fd() statement by statement.  h.desc is a word:     *)
(* a racing read returns the value of some write it is not ordered after,  *)
(* and never one older than a write the goroutine has already seen or      *)
(* made itself.                                                            *)

\* the values a racing read of h.desc by goroutine t may return, as indices
\* into the writes
Readable(t) == seenIdx[t] .. Len(descWrites)

\* "return h.desc" returning what the check read
FdRet_checked(checked, cached) == checked

\* line 67: return h.desc
FdRet(checked, cached) == cached

InitRace ==
    \E d \in LazyDescs :
        /\ fdTable = d.r.st.fds
        /\ nonblock = d.r.st.nb
        /\ handles = << IF d.cache = "unset" THEN [d.r.desc EXCEPT !.desc = -1]
                        ELSE d.r.desc >>
        /\ made = <<d.cache>>
        /\ fdSeen = <<{}>>
        /\ ret = Ret("none", 0, NoErr, -1)
        /\ trace = <<>>
        /\ pc = [t \in Threads |-> "idle"]
        /\ tchk = [t \in Threads |-> -1]
        /\ tloc = [t \in Threads |-> -1]
        /\ seenIdx = [t \in Threads |-> 1]
        /\ descWrites = << handles[1].desc >>

\* a goroutine enters Fd()
FdCall(t) ==
    /\ pc[t] = "idle"
    /\ pc' = [pc EXCEPT ![t] = "check"]
    /\ UNCHANGED <<fdTable, nonblock, handles, made, fdSeen, ret, trace,
                   tchk, tloc, seenIdx, descWrites>>

\* line 63: if h.desc == -1
FdCheck(t) ==
    /\ pc[t] = "check"
    /\ \E j \in Readable(t) :
          /\ seenIdx' = [seenIdx EXCEPT ![t] = j]
          /\ tchk' = [tchk EXCEPT ![t] = descWrites[j]]
          /\ pc' = [pc EXCEPT ![t] = IF descWrites[j] = -1 THEN "resolve" ELSE "return"]
    /\ UNCHANGED <<fdTable, nonblock, handles, made, fdSeen, ret, trace,
                   tloc, descWrites>>

\* line 64, right-hand side: int(h.file.Fd())
FdResolve(t) ==
    /\ pc[t] = "resolve"
    /\ tloc' = [tloc EXCEPT ![t] = fileFd(handles[1].file)]
    /\ pc' = [pc EXCEPT ![t] = "store"]
    /\ UNCHANGED <<fdTable, nonblock, handles, made, fdSeen, ret, trace,
                   tchk, seenIdx, descWrites>>

\* line 64, assignment: h.desc = ...
FdStore(t) ==
    /\ pc[t] = "store"
    /\ handles' = [handles EXCEPT ![1].desc = tloc[t]]
    /\ descWrites' = Append(descWrites, tloc[t])
    /\ seenIdx' = [seenIdx EXCEPT ![t] = Len(descWrites) + 1]
    /\ pc' = [pc EXCEPT ![t] = "return"]
    /\ UNCHANGED <<fdTable, nonblock, made, fdSeen, ret, trace, tchk, tloc>>

\* line 67: return h.desc
FdReturn(t) ==
    /\ pc[t] = "return"
    /\ \E j \in Readable(t) :
          /\ seenIdx' = [seenIdx EXCEPT ![t] = j]
          /\ tloc' = [tloc EXCEPT ![t] = FdRet(tchk[t], descWrites[j])]
    /\ pc' = [pc EXCEPT ![t] = "done"]
    /\ UNCHANGED <<fdTable, nonblock, handles, made, fdSeen, ret, trace,
                   tchk, descWrites>>

NextRace ==
    \E t \in Threads :
        FdCall(t) \/ FdCheck(t) \/ FdResolve(t) \/ FdStore(t) \/ FdReturn(t)

SpecRace == InitRace /\ [][NextRace]_vars

-----------------------------------------------------------------------------
(* Properties *)

Filers == {"conn", "listener"}

Extractors == {"Handle", "HandleListener"}

Constructors == {"NewDesc", "Handle", "HandleListener"}

\* the step is a construction from source x
FromSource(x, ev, fail) ==
    /\ ret'.op \in Extractors
    /\ Handle(x, ev, fail) \/ HandleListener(x, ev, fail)

\* the step is Close() on the i-th Desc
CloseStep(i) == ret'.op = "Close" /\ ret'.h = i /\ Close(i)

\* the step is Fd() on the i-th Desc
FdStep(i) == ret'.op = "Fd" /\ ret'.h = i /\ Fd(i)

\* the Desc is not closed and its descriptor is open
Usable(fds, h) == h.file # -1 /\ IsOpen(fds, h.file)

\* C1: when File() has returned a copy and setting it non-blocking fails,
\* the construction closes the copy after the failed call, returns a nil
\* Desc and the error wrapped as "setnonblock", and leaves the set of open
\* descriptors as it was before the call.
C1_RollbackOnSetNonblockFailure ==
    [][ \A x \in Filers, ev \in Interests :
          LET f == connFile(OS, x, "SetNonblock") IN
          (FromSource(x, ev, "SetNonblock") /\ f.err = NoErr)
            => /\ ret'.h = 0
               /\ handles' = handles
               /\ Len(ret'.err) = 2 /\ ret'.err[1] = "setnonblock"
               /\ trace' = <<Op("File", srcFd(x)), Op("setnonblock", f.file),
                             Op("file.Close", f.file)>>
               /\ OpenFds(fdTable') = OpenFds(fdTable) ]_vars

C1_Witness ==
    /\ ret.op \in Extractors
    /\ ret.h = 0
    /\ Len(ret.err) = 2 /\ ret.err[1] = "setnonblock"
    /\ Len(trace) = 3 /\ trace[3].op = "file.Close"
    /\ handles # <<>>

\* C2: a Desc returned by Handle(c, ev) (by HandleListener(l, ev)) has a
\* descriptor number different from c's (l's) own, and a Close of that Desc,
\* at any later time, leaves c's (l's) own descriptor open, on the same
\* description and in the same mode.
C2_OwnDescriptorUntouched ==
    /\ [](\A x \in Filers :
            (ret.op = (IF x = "conn" THEN "Handle" ELSE "HandleListener") /\ ret.h # 0)
              => /\ handles[ret.h].desc # srcFd(x)
                 /\ handles[ret.h].file # srcFd(x))
    /\ [][ \A i \in DOMAIN handles : \A x \in Filers :
             (/\ CloseStep(i)
              /\ made[i] = (IF x = "conn" THEN "Handle" ELSE "HandleListener")
              /\ IsOpen(fdTable, srcFd(x)))
               => /\ fdTable'[srcFd(x)] = fdTable[srcFd(x)]
                  /\ nonblock'[fdTable[srcFd(x)]] = nonblock[fdTable[srcFd(x)]] ]_vars

C2_Witness ==
    /\ ret.op = "Close" /\ ret.err = NoErr
    /\ made[ret.h] = "Handle"
    /\ handles[ret.h].desc # 0
    /\ fdTable[0] = 1

\* C3: a construction from an object that has no File() returns ErrNotFiler
\* and a nil Desc, performs no File(), set-nonblocking or close, and leaves
\* the descriptor table and the modes unchanged.
C3_NotFilerNoEffect ==
    [][ \A ev \in Interests, fail \in Faults :
          FromSource("other", ev, fail)
            => /\ ret'.err = ErrNotFiler
               /\ ret'.h = 0
               /\ trace' = <<>>
               /\ fdTable' = fdTable
               /\ nonblock' = nonblock
               /\ handles' = handles ]_vars

C3_Witness ==
    /\ ret.op \in Extractors
    /\ ret.err = ErrNotFiler
    /\ ret.h = 0
    /\ trace = <<>>

\* C4: the Desc a constructor returns has its descriptor open and in
\* non-blocking mode, and no Fd() or Close() call on any Desc turns the
\* descriptor of a Desc that stays open from non-blocking to blocking.
C4_NonblockingAfterConstruction ==
    /\ []((ret.op \in Constructors /\ ret.h # 0)
            => /\ Usable(fdTable, handles[ret.h])
               /\ nonblock[fdTable[handles[ret.h].file]])
    /\ [][ \A i \in DOMAIN handles :
             (FdStep(i) \/ CloseStep(i))
               => \A j \in DOMAIN handles :
                    (/\ Usable(fdTable, handles[j])
                     /\ nonblock[fdTable[handles[j].file]]
                     /\ Usable(fdTable', handles'[j]))
                      => nonblock'[fdTable'[handles'[j].file]] ]_vars

C4_Witness ==
    /\ ret.op \in {"Fd", "Close"}
    /\ \E j \in DOMAIN handles :
          /\ j # ret.h
          /\ Usable(fdTable, handles[j])
          /\ nonblock[fdTable[handles[j].file]]
          /\ fdTable[handles[j].file] = fdTable[handles[ret.h].desc]

\* C5 as stated: no two unclosed Desc values own the same descriptor.
C5_NoSharedDescriptor ==
    \A i, j \in DOMAIN handles :
        (i # j /\ handles[i].file # -1 /\ handles[j].file # -1)
          => handles[i].file # handles[j].file

\* C5 as amended: Handle and HandleListener return a Desc on a descriptor
\* that was not open before the call, so on none that a usable Desc owns,
\* and Close closes no descriptor but the one of the Desc it is called on.
\* (NewDesc takes the number it is given: two Desc values own the same
\* descriptor when it is given a number a Desc already owns.)
C5_FreshDescriptorPerExtraction ==
    [][ /\ \A x \in Filers, ev \in Interests, fail \in Faults :
             (FromSource(x, ev, fail) /\ ret'.h # 0)
               => /\ ~IsOpen(fdTable, handles'[ret'.h].file)
                  /\ IsOpen(fdTable', handles'[ret'.h].file)
                  /\ \A j \in DOMAIN handles :
                        Usable(fdTable, handles[j])
                          => handles[j].file # handles'[ret'.h].file
        /\ \A i \in DOMAIN handles :
             CloseStep(i) => \A fd \in Fds \ {handles[i].file} :
                            fdTable'[fd] = fdTable[fd] ]_vars

C5_Witness ==
    /\ ret.op \in Extractors /\ ret.h # 0
    /\ \E j \in DOMAIN handles :
          /\ j # ret.h
          /\ made[j] \in Extractors
          /\ Usable(fdTable, handles[j])
          /\ Usable(fdTable, handles[ret.h])
          /\ handles[j].file # handles[ret.h].file

\* C6: all Fd() calls on one Desc have returned one and the same value, with
\* the cache populated at construction and with the cache unset alike, and
\* on a Desc that is not closed that value is the descriptor number of its
\* file.
C6_FdStable ==
    /\ \A i \in DOMAIN handles : Cardinality(fdSeen[i]) <= 1
    /\ (ret.op = "Fd" /\ handles[ret.h].file # -1)
         => ret.val = handles[ret.h].file

C6_Witness ==
    /\ made[1] = "unset"
    /\ ret.op = "Fd" /\ ret.h = 1
    /\ handles[1].file = -1
    /\ ret.val \in Fds
    /\ \E j \in DOMAIN handles : made[j] \in Constructors /\ fdSeen[j] # {}

\* C7: when File() fails with error e, the construction returns a nil Desc
\* and e itself, has called File() once and nothing else, and leaves the
\* descriptor table and the modes unchanged.
C7_ExtractionErrorVerbatim ==
    [][ \A x \in Filers, ev \in Interests, fail \in Faults :
          LET f == connFile(OS, x, fail) IN
          (FromSource(x, ev, fail) /\ f.err # NoErr)
            => /\ ret'.h = 0
               /\ ret'.err = f.err
               /\ ret'.err \in {<<"EMFILE">>, <<"EBADF">>}
               /\ trace' = <<Op("File", srcFd(x))>>
               /\ fdTable' = fdTable
               /\ nonblock' = nonblock
               /\ handles' = handles ]_vars

C7_Witness ==
    /\ ret.op \in Extractors
    /\ ret.h = 0
    /\ ret.err = <<"EBADF">>
    /\ trace = <<Op("File", 0)>>

\* C8 as stated: in a construction from a source the set-nonblocking call is
\* made on the copy, never on the source's own descriptor, and the source is
\* in the same mode after the call as before it.
C8_SourceModeUnchanged ==
    [][ \A x \in Filers, ev \in Interests, fail \in Faults :
          LET f == connFile(OS, x, fail) IN
          (FromSource(x, ev, fail) /\ f.err = NoErr)
            => /\ trace'[2] = Op("setnonblock", f.file)
               /\ f.file # srcFd(x)
               /\ nonblock'[fdTable[srcFd(x)]] = f.st.nb[fdTable[srcFd(x)]] ]_vars

\* C8 as amended: the set-nonblocking call is made with the number of the
\* copy, never with the source's own; the copy shares the source's file
\* description, so a successful call puts the source back in non-blocking
\* mode, and a failed one leaves it in the blocking mode File() set.
C8_NonblockOnCopyRestoresSource ==
    [][ \A x \in Filers, ev \in Interests, fail \in Faults :
          LET f == connFile(OS, x, fail) IN
          (FromSource(x, ev, fail) /\ f.err = NoErr)
            => /\ trace'[2] = Op("setnonblock", f.file)
               /\ f.file # srcFd(x)
               /\ ~f.st.nb[fdTable[srcFd(x)]]
               /\ nonblock'[fdTable[srcFd(x)]] = (ret'.h # 0) ]_vars

C8_Witness ==
    /\ ret.op = "Handle" /\ ret.h # 0
    /\ Len(trace) = 2 /\ trace[2].op = "setnonblock" /\ trace[2].fd # 0
    /\ fdTable[0] = 1 /\ nonblock[1]
    /\ fdTable[trace[2].fd] = 1

\* C9: every Close() calls Close on the file and returns what that returns;
\* on a Desc that is already closed the call is made again, returns an
\* error, and closes no descriptor.
C9_CloseUnguarded ==
    [][ \A i \in DOMAIN handles :
          CloseStep(i)
            => /\ trace' = <<Op("file.Close", handles[i].file)>>
               /\ ret'.err = fileClose(OS, handles[i].file).err
               /\ handles[i].file = -1
                    => /\ ret'.err # NoErr
                       /\ fdTable' = fdTable
                       /\ nonblock' = nonblock ]_vars

C9_Witness ==
    /\ ret.op = "Close"
    /\ ret.err = <<"ErrClosed">>
    /\ trace = <<Op("file.Close", -1)>>
    /\ OpenFds(fdTable) # {0, 1}

C12_NewDescNoDup ==
    [][ \A fd \in -1 .. (MaxFd - 1), ev \in Interests, fail \in Faults :
          (ret'.op = "NewDesc" /\ ret'.h # 0 /\ NewDesc(fd, ev, fail)) =>
             /\ DescFd(handles'[ret'.h]).val = fd
             /\ handles'[ret'.h].file = fd
             /\ fdTable' = fdTable
             /\ \A k \in DOMAIN trace' : trace'[k].op # "File"
      ]_vars

\* NewDesc has returned a Desc on a descriptor that is open
C12_Witness ==
    /\ ret.op = "NewDesc"
    /\ ret.h # 0
    /\ ret.err = NoErr
    /\ IsOpen(fdTable, handles[ret.h].desc)

\* C16: Close() leaves the cached number alone.  The number Fd() gives on a
\* Desc right after its Close() is the number it gave right before, and
\* every Fd() on a closed Desc returns the cached number, whatever the
\* descriptor table holds under that number by then.
C16_CloseKeepsCachedNumber ==
    [][ \A i \in DOMAIN handles :
          /\ CloseStep(i) =>
                /\ handles[i].desc # -1
                /\ DescFd(handles'[i]).val = DescFd(handles[i]).val
          /\ (FdStep(i) /\ handles[i].file = -1) =>
                /\ ret'.val = handles[i].desc
                /\ ret'.val # -1
      ]_vars

\* Fd() on a closed Desc has returned the number that the kernel has since
\* given to a later Desc, which is open and reports the same number
C16_Witness ==
    /\ ret.op = "Fd"
    /\ handles[ret.h].file = -1
    /\ \E j \in DOMAIN handles :
          /\ j > ret.h
          /\ made[j] \in Extractors
          /\ Usable(fdTable, handles[j])
          /\ DescFd(handles[j]).val = ret.val

\* the descriptor is the socket that source x itself holds
SourceOwn(fds, fd) ==
    \E x \in Filers : fd = srcFd(x) /\ fds[fd] = srcFd(x) + 1

\* the Desc values that are not closed and whose file is descriptor fd
Owners(hs, fd) == {j \in DOMAIN hs : hs[j].file = fd}

FailedNewDescStep(fd, ev, fail) ==
    /\ ret'.op = "NewDesc"
    /\ ret'.err # NoErr
    /\ trace'[1].fd = osNewFile(fd)
    /\ NewDesc(fd, ev, fail)

\* C18: when NewDesc(fd, ev) returns an error, the error is the wrapped
\* error of the failed set-nonblocking call on fd, the call after it was
\* Close() of the file made from fd, the Desc returned is nil, fd is not open
\* afterwards, and no other descriptor has changed.
C18_FailedNewDescClosesFd ==
    [][ \A fd \in -1 .. (MaxFd - 1), ev \in Interests, fail \in Faults :
          FailedNewDescStep(fd, ev, fail) =>
             /\ ret'.h = 0
             /\ handles' = handles
             /\ Len(ret'.err) = 2 /\ ret'.err[1] = "setnonblock"
             /\ trace' = <<Op("setnonblock", osNewFile(fd)),
                           Op("file.Close", osNewFile(fd))>>
             /\ ~IsOpen(fdTable', fd)
             /\ \A g \in Fds \ {fd} : fdTable'[g] = fdTable[g]
      ]_vars

\* NewDesc has failed on a descriptor that was open (the set-nonblocking
\* call was refused), and that descriptor, a Desc's own, is closed now
C18_Witness ==
    /\ ret.op = "NewDesc"
    /\ ret.err = <<"setnonblock", "EINVAL">>
    /\ Len(trace) = 2
    /\ trace[2].op = "file.Close"
    /\ ~IsOpen(fdTable, trace[2].fd)
    /\ \E i \in DOMAIN handles : handles[i].file = trace[2].fd

-----------------------------------------------------------------------------
(* The shorthand constructors and the interests they pass to Handle.       *)

\* a | b on Event values
RECURSIVE BitOr(_, _)
BitOr(a, b) ==
    IF a = 0 THEN b
    ELSE IF b = 0 THEN a
    ELSE (IF a % 2 = 1 \/ b % 2 = 1 THEN 1 ELSE 0)
         + 2 * BitOr(a \div 2, b \div 2)

\* HandleReadOnce that asks for edge-triggered delivery
HandleReadOnceFn_edge(st, conn, fail) ==
    HandleFn(st, conn, BitOr(EventRead, EventEdgeTriggered), fail)

\* func HandleRead(conn net.Conn) (*Desc, error)
HandleReadFn(st, conn, fail) ==
    HandleFn(st, conn, BitOr(EventRead, EventEdgeTriggered), fail)

\* func HandleReadOnce(conn net.Conn) (*Desc, error)
HandleReadOnceFn(st, conn, fail) ==
    HandleFn(st, conn, BitOr(EventRead, EventOneShot), fail)

\* func HandleWrite(conn net.Conn) (*Desc, error)
HandleWriteFn(st, conn, fail) ==
    HandleFn(st, conn, BitOr(EventWrite, EventEdgeTriggered), fail)

\* func HandleWriteOnce(conn net.Conn) (*Desc, error)
HandleWriteOnceFn(st, conn, fail) ==
    HandleFn(st, conn, BitOr(EventWrite, EventOneShot), fail)

\* func HandleReadWrite(conn net.Conn) (*Desc, error)
HandleReadWriteFn(st, conn, fail) ==
    HandleFn(st, conn, BitOr(BitOr(EventRead, EventWrite), EventEdgeTriggered),
             fail)

HandleRead(x, fail) == Construct("HandleRead", HandleReadFn(OS, x, fail))

HandleReadOnce(x, fail) ==
    Construct("HandleReadOnce", HandleReadOnceFn(OS, x, fail))

HandleWrite(x, fail) == Construct("HandleWrite", HandleWriteFn(OS, x, fail))

HandleWriteOnce(x, fail) ==
    Construct("HandleWriteOnce", HandleWriteOnceFn(OS, x, fail))

HandleReadWrite(x, fail) ==
    Construct("HandleReadWrite", HandleReadWriteFn(OS, x, fail))

\* interests a caller passes to the general constructors
AnyInterests ==
    { BitOr(BitOr(EventRead, EventWrite), EventOneShot),
      BitOr(EventWrite, EventEdgeTriggered) }

NextInterest ==
    \/ \E x \in {"conn", "other"}, ev \in AnyInterests, fail \in Faults :
          Handle(x, ev, fail)
    \/ \E x \in {"conn", "other"}, fail \in Faults : HandleRead(x, fail)
    \/ \E x \in {"conn", "other"}, fail \in Faults : HandleReadOnce(x, fail)
    \/ \E x \in {"conn", "other"}, fail \in Faults : HandleWrite(x, fail)
    \/ \E x \in {"conn", "other"}, fail \in Faults : HandleWriteOnce(x, fail)
    \/ \E x \in {"conn", "other"}, fail \in Faults : HandleReadWrite(x, fail)
    \/ \E i \in DOMAIN handles : Close(i)
    \/ \E i \in DOMAIN handles : Fd(i)

SpecInterest == Init /\ [][NextInterest]_vars

-----------------------------------------------------------------------------
(* Properties of SpecInterest *)

Shorthands ==
    {"HandleRead", "HandleReadOnce", "HandleWrite", "HandleWriteOnce",
     "HandleReadWrite"}

\* C11: a Desc carries the interest its constructor was given for as long as
\* it exists: Handle(x, ev) returns a Desc whose event is ev, no step changes
\* the event of an existing Desc, and a call of Fd() or Close() on a Desc
\* changes no field of any Desc other than, at most, the cached number desc
\* of the Desc it is called on (Close() ends the os.File the field file
\* points to, modelled by file = -1, and leaves desc alone).
C11_InterestFixed ==
    [][ /\ \A i \in DOMAIN handles : handles'[i].event = handles[i].event
        /\ \A i \in DOMAIN handles :
              FdStep(i) =>
                 /\ handles'[i].file = handles[i].file
                 /\ \A j \in DOMAIN handles \ {i} : handles'[j] = handles[j]
        /\ \A i \in DOMAIN handles :
              CloseStep(i) =>
                 /\ handles'[i].desc = handles[i].desc
                 /\ \A j \in DOMAIN handles \ {i} : handles'[j] = handles[j]
        /\ \A x \in {"conn", "other"}, ev \in AnyInterests, fail \in Faults :
              (ret'.op = "Handle" /\ ret'.h # 0 /\ Handle(x, ev, fail)) =>
                 handles'[ret'.h].event = ev
      ]_vars

\* Fd() has just been called on a closed Desc that Handle made with the
\* interest Read|Write|OneShot, and the Desc still carries that interest
C11_Witness ==
    /\ ret.op = "Fd"
    /\ made[ret.h] = "Handle"
    /\ handles[ret.h].file = -1
    /\ handles[ret.h].event = BitOr(BitOr(EventRead, EventWrite), EventOneShot)


\* the interest each shorthand is documented to pass
Documented(op) ==
    CASE op = "HandleRead" -> BitOr(EventRead, EventEdgeTriggered)
      [] op = "HandleReadOnce" -> BitOr(EventRead, EventOneShot)
      [] op = "HandleWrite" -> BitOr(EventWrite, EventEdgeTriggered)
      [] op = "HandleWriteOnce" -> BitOr(EventWrite, EventOneShot)
      [] op = "HandleReadWrite" ->
            BitOr(EventRead, BitOr(EventWrite, EventEdgeTriggered))

\* the step is a call of shorthand op on x
ShorthandStep(op, x, fail) ==
    /\ ret'.op = op
    /\ CASE op = "HandleRead" -> HandleRead(x, fail)
         [] op = "HandleReadOnce" -> HandleReadOnce(x, fail)
         [] op = "HandleWrite" -> HandleWrite(x, fail)
         [] op = "HandleWriteOnce" -> HandleWriteOnce(x, fail)
         [] op = "HandleReadWrite" -> HandleReadWrite(x, fail)

EdgeShorthands == {"HandleRead", "HandleWrite", "HandleReadWrite"}

OnceShorthands == {"HandleReadOnce", "HandleWriteOnce"}

\* C14: a call of a shorthand has the effect and the result of Handle called
\* with the shorthand's documented interest (HandleRead: Read|EdgeTriggered,
\* HandleReadOnce: Read|OneShot, HandleWrite: Write|EdgeTriggered,
\* HandleWriteOnce: Write|OneShot, HandleReadWrite: Read|Write|EdgeTriggered),
\* and the interest of a Desc made by an edge-triggered shorthand is never
\* the interest of a Desc made by a one-shot shorthand.
C14_ShorthandInterests ==
    [][ /\ \A op \in Shorthands, x \in {"conn", "other"}, fail \in Faults :
              ShorthandStep(op, x, fail) =>
                 LET r == HandleFn(OS, x, Documented(op), fail) IN
                 /\ fdTable' = r.st.fds
                 /\ nonblock' = r.st.nb
                 /\ trace' = r.trace
                 /\ ret'.err = r.err
                 /\ IF r.desc = NilDesc THEN ret'.h = 0
                    ELSE ret'.h # 0 /\ handles'[ret'.h] = r.desc
        /\ \A i, j \in DOMAIN handles' :
              (made'[i] \in EdgeShorthands /\ made'[j] \in OnceShorthands) =>
                 handles'[i].event # handles'[j].event
      ]_vars

\* HandleRead and HandleReadOnce have each made a Desc on the connection
C14_Witness ==
    \E i, j \in DOMAIN handles :
        /\ made[i] = "HandleRead"
        /\ made[j] = "HandleReadOnce"
        /\ handles[i].event = EventRead + EventEdgeTriggered
        /\ handles[j].event = EventRead + EventOneShot
        /\ Usable(fdTable, handles[i])
        /\ Usable(fdTable, handles[j])

-----------------------------------------------------------------------------
(* The poller constructor of a platform without a readiness facility.      *)

\* what a caller may pass as *Config: nil or a pointer to a Config
Configs == {"nil", "config"}

NilPoll == "nil"

\* New that builds a poller when it is given a configuration
NewFn_configured(cfg) ==
    IF cfg = "nil"
    THEN [poll |-> NilPoll,
          err |-> <<"poller", "is", "not", "supported", "on", "this",
                    "operating", "system">>]
    ELSE [poll |-> "poller", err |-> NoErr]

\* func New(*Config) (EventPoll, error); the message, word by word
NewFn(cfg) ==
    [poll |-> NilPoll,
     err |-> <<"poller", "is", "not", "supported", "on", "this",
               "operating", "system">>]

\* the caller receives the result of New(cfg)
New(cfg) ==
    LET r == NewFn(cfg) IN
    /\ ret' = Ret("New", IF r.poll = NilPoll THEN 0 ELSE 1, r.err, -1)
    /\ trace' = <<>>
    /\ UNCHANGED <<fdTable, nonblock, handles, made, fdSeen>>
    /\ UNCHANGED raceVars

NextStub ==
    \/ Next
    \/ \E cfg \in Configs : New(cfg)

SpecStub == Init /\ [][NextStub]_vars

\* the words of part occur in msg, consecutively and in order
Contains(msg, part) ==
    \E k \in 0 .. (Len(msg) - Len(part)) :
        SubSeq(msg, k + 1, k + Len(part)) = part

\* C13: on a platform without a readiness facility, New returns the same
\* result for every configuration, the nil one included: a nil poller and a
\* non-nil error whose message contains "not supported on this operating
\* system"; the call changes nothing else.
C13_NewNotSupported ==
    [][ \A cfg \in Configs :
          (ret'.op = "New" /\ New(cfg)) =>
             /\ ret'.h = 0
             /\ ret'.err # NoErr
             /\ Contains(ret'.err, <<"not", "supported", "on", "this",
                                     "operating", "system">>)
             /\ \A other \in Configs : NewFn(other).err = ret'.err
             /\ UNCHANGED <<fdTable, nonblock, handles, made>>
      ]_vars

\* New has returned while a Desc exists
C13_Witness ==
    /\ ret.op = "New"
    /\ ret.h = 0
    /\ ret.err # NoErr
    /\ handles # <<>>

-----------------------------------------------------------------------------
(* Must, applied to what a constructor returned.  A Desc is passed by its  *)
(* index in handles, 0 for nil.  A panic ends the program.                 *)

\* errors a caller may hand to Must
MustErrs == {NoErr, ErrNotFiler, <<"setnonblock", "EINVAL">>}

\* Must that panics on a nil Desc instead of a non-nil error
MustFn_nilDesc(desc, err) ==
    IF desc = 0
    THEN [panic |-> TRUE, desc |-> 0, err |-> err]
    ELSE [panic |-> FALSE, desc |-> desc, err |-> NoErr]

\* func Must(desc *Desc, err error) *Desc
MustFn(desc, err) ==
    IF err # NoErr
    THEN [panic |-> TRUE, desc |-> 0, err |-> err]
    ELSE [panic |-> FALSE, desc |-> desc, err |-> NoErr]

\* the caller receives desc back, or the program panics with err
Must(desc, err) ==
    LET r == MustFn(desc, err) IN
    /\ ret' = Ret(IF r.panic THEN "panic" ELSE "Must", r.desc, r.err, -1)
    /\ trace' = <<>>
    /\ UNCHANGED <<fdTable, nonblock, handles, made, fdSeen>>
    /\ UNCHANGED raceVars

NextMust ==
    \/ ret.op # "panic" /\ Next
    \/ \E desc \in 0 .. Len(handles), err \in MustErrs :
          ret.op # "panic" /\ Must(desc, err)

SpecMust == Init /\ [][NextMust]_vars

\* C15: Must(desc, err) panics exactly when err is not nil, with err as the
\* panic value, and otherwise returns desc and changes nothing; no other
\* operation panics, and a constructor that fails returns its error together
\* with a nil Desc.
C15_MustPanicsIffError ==
    [][ /\ \A desc \in 0 .. Len(handles), err \in MustErrs :
              (ret'.op \in {"Must", "panic"} /\ Must(desc, err)) =>
                 /\ (ret'.op = "panic") <=> (err # NoErr)
                 /\ err # NoErr => ret'.err = err
                 /\ err = NoErr => ret'.h = desc /\ ret'.err = NoErr
                 /\ UNCHANGED <<fdTable, nonblock, handles, made>>
        /\ ret'.op = "panic" =>
              \E desc \in 0 .. Len(handles), err \in MustErrs \ {NoErr} :
                  Must(desc, err)
        /\ (ret'.op \in Constructors /\ ret'.err # NoErr) =>
              /\ ret'.h = 0
              /\ handles' = handles
      ]_vars

\* Must has panicked with the error of a failed construction, after an
\* earlier construction had succeeded
C15_Witness ==
    /\ ret.op = "panic"
    /\ ret.err = <<"setnonblock", "EINVAL">>
    /\ handles # <<>>

=============================================================================
